---- MODULE Spec2Model ----
(***************************************************************************)
(* Subscription entitlement core of the family-collaboration app:          *)
(*   shared/subscription-utils.ts   plan catalog and limit evaluator       *)
(*   hooks/useHouseholdSubscription entitlement reconciler                 *)
(*   hooks/usePurchases.ts          purchase-flow orchestrator (React hook)*)
(*   services/purchases.ts          PurchasesService singleton             *)
(*   pages/Pricing.tsx              handleUpgrade (web checkout gate)      *)
(*                                                                         *)
(* JavaScript values are tagged records ([t |-> "boolean", b |-> TRUE]),   *)
(* so that undefined, null, the empty string, Invalid Date and the         *)
(* truthiness rules of || and && are part of the model.                    *)
(***************************************************************************)
EXTENDS Integers, Sequences, FiniteSets, TLC

VARIABLES
    PLAN_LIMITS,          \* subscription-utils.ts: the exported catalog object
    call, ret, clock,     \* one evaluation of a pure function: its call, its result, new Date()
    isNativePlatform,     \* Capacitor.isNativePlatform()
    isInitialized,        \* usePurchases: useState(false)
    isLoading,            \* usePurchases: useState(false)
    products,             \* usePurchases: useState([])
    activeSubscription,   \* usePurchases: useState(null)
    svcInitialized,       \* PurchasesService.isInitialized
    apiKey,               \* the REVENUECAT_API_KEY_* of the running platform ("" when not configured)
    pageIsLoading,        \* Pricing: useState(false)
    couponCode,           \* Pricing: useState("")
    householdStatus,      \* useQuery(['/api/household/subscription']).data
    user,                 \* useAuth().user
    flows,                \* the async invocations: position and locals of each
    net                   \* requests issued and SDK operations invoked so far

vars == <<PLAN_LIMITS, call, ret, clock, isNativePlatform, isInitialized, isLoading,
          products, activeSubscription, svcInitialized, apiKey, pageIsLoading, couponCode,
          householdStatus, user, flows, net>>

pureVars == <<call, ret, clock>>

\* what no operation of the application writes
staticVars == <<PLAN_LIMITS, call, ret, clock>>

appVars == <<isNativePlatform, isInitialized, isLoading, products, activeSubscription,
             svcInitialized, apiKey, pageIsLoading, couponCode, householdStatus, user,
             flows, net>>

-----------------------------------------------------------------------------
(* Bounds of the model *)

\* instants of the clock and of the dates: 0..MaxTime
MaxTime == 3

\* counts and limits given to hasReachedLimit: -MaxCount..MaxCount
MaxCount == 5

\* async invocations (initialize, fetchProducts, ...) in one run
MaxFlows == 2

\* logouts and service logout calls in a run
MaxLogouts == 1

\* calls of one SDK operation in a run of direct service calls
MaxSdkCalls == 2

-----------------------------------------------------------------------------
(* JavaScript values *)

Undefined == [t |-> "undefined"]

Null == [t |-> "null"]

Bool(b) == [t |-> "boolean", b |-> b]

Num(n) == [t |-> "number", n |-> n]

Str(s) == [t |-> "string", s |-> s]

\* a plain object: fields is a record; an absent key reads as undefined
Obj(fields) == [t |-> "object", fields |-> fields]

\* the time value of a Date: a number of milliseconds, or NaN
NaN == [nan |-> TRUE, ms |-> 0]

Ms(n) == [nan |-> FALSE, ms |-> n]

DateObj(tv) == [t |-> "date", time |-> tv]

\* ToBoolean
Truthy(v) ==
    CASE v.t = "undefined" -> FALSE
      [] v.t = "null" -> FALSE
      [] v.t = "boolean" -> v.b
      [] v.t = "number" -> v.n # 0
      [] v.t = "string" -> v.s # ""
      [] OTHER -> TRUE

\* a || b
JsOr(a, b) == IF Truthy(a) THEN a ELSE b

\* a && b
JsAnd(a, b) == IF Truthy(a) THEN b ELSE a

\* obj?.key
OptGet(obj, key) ==
    IF obj.t # "object" THEN Undefined
    ELSE IF key \in DOMAIN obj.fields THEN obj.fields[key]
    ELSE Undefined

\* v === 'literal'
StrictEqStr(v, s) == v.t = "string" /\ v.s = s

Digits == <<"0", "1", "2", "3", "4", "5", "6", "7", "8", "9">>

\* Date.prototype.toISOString of the instant n (n milliseconds after the epoch)
ToISOString(n) == "1970-01-01T00:00:00.00" \o Digits[n + 1] \o "Z"

\* Date.parse: the instant of an ISO string, NaN for anything else
DateParse(s) ==
    IF \E n \in 0..9 : ToISOString(n) = s
    THEN Ms(CHOOSE n \in 0..9 : ToISOString(n) = s)
    ELSE NaN

\* new Date(value) for a Date or a string
NewDate(v) ==
    CASE v.t = "date" -> DateObj(v.time)
      [] v.t = "string" -> DateObj(DateParse(v.s))
      [] OTHER -> DateObj(NaN)

\* d1 <= d2 on two Dates: a comparison of their time values, false with NaN
DateLte(d1, d2) ==
    /\ ~d1.time.nan
    /\ ~d2.time.nan
    /\ d1.time.ms <= d2.time.ms

-----------------------------------------------------------------------------
(* shared/subscription-utils.ts *)

Plans == {"basic", "premium"}

LimitKeys == {"maxGroups", "maxEventsPerMonth", "maxMembersPerGroup"}

FeatureKeys == {"canUseAdvancedFeatures", "hasRealTimeChat", "hasTaskManagement",
                "hasEventPlanning", "hasMailingLabels"}

\* the literal of PLAN_LIMITS
PlanLimitsLiteral ==
    [basic |->
        [maxGroups |-> Num(0),
         maxEventsPerMonth |-> Num(0),
         maxMembersPerGroup |-> Num(-1),
         canUseAdvancedFeatures |-> Bool(FALSE),
         hasRealTimeChat |-> Bool(TRUE),
         hasTaskManagement |-> Bool(TRUE),
         hasEventPlanning |-> Bool(FALSE),
         hasMailingLabels |-> Bool(FALSE)],
     premium |->
        [maxGroups |-> Num(-1),
         maxEventsPerMonth |-> Num(-1),
         maxMembersPerGroup |-> Num(-1),
         canUseAdvancedFeatures |-> Bool(TRUE),
         hasRealTimeChat |-> Bool(TRUE),
         hasTaskManagement |-> Bool(TRUE),
         hasEventPlanning |-> Bool(TRUE),
         hasMailingLabels |-> Bool(TRUE)]]

getPlanLimits_Swapped(plan) == Obj(PLAN_LIMITS[IF plan = "basic" THEN "premium" ELSE "basic"])

getPlanLimits(plan) == Obj(PLAN_LIMITS[plan])

canUserAccessFeature(userPlan, feature) ==
    LET limits == getPlanLimits(userPlan)
    IN  limits.fields[feature]

canHouseholdAccessFeature_Basic(hasPremiumInHousehold, feature) ==
    canUserAccessFeature("basic", feature)

canHouseholdAccessFeature(hasPremiumInHousehold, feature) ==
    LET plan == IF Truthy(hasPremiumInHousehold) THEN "premium" ELSE "basic"
    IN  canUserAccessFeature(plan, feature)

hasReachedLimit_Strict(currentCount, limit) ==
    IF limit = -1 THEN FALSE ELSE currentCount > limit

hasReachedLimit(currentCount, limit) ==
    IF limit = -1 THEN FALSE ELSE currentCount >= limit

isStripeSubscription(provider) == ~Truthy(provider) \/ StrictEqStr(provider, "stripe")

isRevenueCatSubscription(provider) == StrictEqStr(provider, "revenuecat")

\* now is the value of new Date() inside the function
hasActiveSubscription(subscriptionPlan, subscriptionStatus, subscriptionEndsAt, subscriptionProvider, now) ==
    IF ~StrictEqStr(subscriptionPlan, "premium") THEN FALSE
    ELSE IF ~StrictEqStr(subscriptionStatus, "active") THEN FALSE
    ELSE IF Truthy(subscriptionEndsAt) /\ DateLte(NewDate(subscriptionEndsAt), now)
         THEN FALSE
    ELSE TRUE

getSubscriptionDisplayInfo(provider) ==
    IF isRevenueCatSubscription(provider)
    THEN [providerName |-> "Mobile App Store"]
    ELSE [providerName |-> "Web Payment"]

-----------------------------------------------------------------------------
(* hooks/usePurchases.ts: the computed hasPremium *)

\* activeSubscription?.isActive || false
usePurchases_hasPremium(sub) == JsOr(OptGet(sub, "isActive"), Bool(FALSE))

-----------------------------------------------------------------------------
(* hooks/useHouseholdSubscription.ts: the decision fields of the returned    *)
(* object (hasPremium, subscriptionProvider, isNativePlatform,               *)
(* mobileHasPremium); canAccessFeature is canHouseholdAccessFeature applied  *)
(* to hasPremium.                                                            *)

useHouseholdSubscription_And(hhStatus, mobileHasPremium, native, usr) ==
    LET userIsPremium == Bool(StrictEqStr(OptGet(usr, "subscriptionPlan"), "premium"))
    IN  [hasPremium |-> JsAnd(JsAnd(OptGet(hhStatus, "hasPremium"),
                                    JsAnd(native, mobileHasPremium)),
                              userIsPremium),
         subscriptionProvider |-> Str("stripe"),
         isNativePlatform |-> native,
         mobileHasPremium |-> IF Truthy(native) THEN mobileHasPremium ELSE Bool(FALSE)]

\* the provider chain with the user's stored provider read before the platform default
useHouseholdSubscription_UserProvider(hhStatus, mobileHasPremium, native, usr) ==
    LET userIsPremium == Bool(StrictEqStr(OptGet(usr, "subscriptionPlan"), "premium"))
    IN  [hasPremium |-> JsOr(JsOr(OptGet(hhStatus, "hasPremium"),
                                  JsAnd(native, mobileHasPremium)),
                             userIsPremium),
         subscriptionProvider |->
             JsOr(JsOr(OptGet(hhStatus, "subscriptionProvider"),
                       OptGet(usr, "subscriptionProvider")),
                  IF Truthy(JsAnd(native, mobileHasPremium))
                  THEN Str("revenuecat") ELSE Str("stripe")),
         isNativePlatform |-> native,
         mobileHasPremium |-> IF Truthy(native) THEN mobileHasPremium ELSE Bool(FALSE)]

useHouseholdSubscription(hhStatus, mobileHasPremium, native, usr) ==
    LET userIsPremium == Bool(StrictEqStr(OptGet(usr, "subscriptionPlan"), "premium"))
        computedHasPremium ==
            JsOr(JsOr(OptGet(hhStatus, "hasPremium"),
                      JsAnd(native, mobileHasPremium)),
                 userIsPremium)
        subscriptionProvider ==
            JsOr(JsOr(JsOr(OptGet(hhStatus, "subscriptionProvider"),
                           IF Truthy(JsAnd(native, mobileHasPremium))
                           THEN Str("revenuecat") ELSE Str("stripe")),
                      OptGet(usr, "subscriptionProvider")),
                 Str("stripe"))
    IN  [hasPremium |-> computedHasPremium,
         subscriptionProvider |-> subscriptionProvider,
         isNativePlatform |-> native,
         mobileHasPremium |-> IF Truthy(native) THEN mobileHasPremium ELSE Bool(FALSE)]

-----------------------------------------------------------------------------
(* The async invocations.  Each flow is one call of a hook method or of the   *)
(* page's handleUpgrade; pc is the await it is suspended at.  The methods are *)
(* called by the page's handlers and by the hook's mount effects: any of them *)
(* may be called in any state, and calls overlap.                             *)

Flows == 1..MaxFlows

\* services/purchases.ts PRODUCT_IDS
ProductIds == {"my_branches_premium_monthly", "my_branches_premium_annual"}

\* the result object of PurchasesService.purchaseProduct / restorePurchases
NoResult == [success |-> FALSE, customerInfo |-> FALSE, hasError |-> FALSE,
             message |-> "", code |-> ""]

SuccessResult(withCustomerInfo) ==
    [success |-> TRUE, customerInfo |-> withCustomerInfo, hasError |-> FALSE,
     message |-> "", code |-> ""]

\* the catch blocks of the service: error.message || fallback, error.code || 'UNKNOWN_ERROR'
ErrorResult_CodeDropped(error, fallback) ==
    [success |-> FALSE, customerInfo |-> FALSE, hasError |-> TRUE,
     message |-> IF error.message # "" THEN error.message ELSE fallback,
     code |-> "UNKNOWN_ERROR"]

ErrorResult(error, fallback) ==
    [success |-> FALSE, customerInfo |-> FALSE, hasError |-> TRUE,
     message |-> IF error.message # "" THEN error.message ELSE fallback,
     code |-> IF error.code # "" THEN error.code ELSE "UNKNOWN_ERROR"]

\* new Error(message): no code property
JsError(message) == [message |-> message, code |-> ""]

\* what the provider SDK rejects a purchase or a restore with
SdkErrors == {[message |-> "The purchase was cancelled", code |-> "PURCHASE_CANCELLED"],
              [message |-> "Network error", code |-> "NETWORK_ERROR"],
              [message |-> "", code |-> ""]}

\* the ActiveSubscription built by getActiveSubscription (its isActive is the literal true)
ActiveSub == Obj([isActive |-> Bool(TRUE)])

\* what Purchases.getCustomerInfo gives: an active premium entitlement, none, or a rejection
CustomerInfoOutcomes == {"active", "inactive", "reject"}

\* services/purchases.ts getActiveSubscription, after getCustomerInfo settled
getActiveSubscription(outcome) == IF outcome = "active" THEN ActiveSub ELSE Null

\* the toasts of the hook and of the page, by title
DestructiveToasts == {"Initialization Error", "Products Error", "Purchase Failed",
                      "Purchase Error", "Restore Failed", "Restore Error",
                      "Not Available", "Checkout Error"}

InfoToasts == {"Purchase Successful!", "Purchases Restored!", "No Purchases Found"}

\* the error a call of the provider SDK rejected with, once one did
NoSdkError == [thrown |-> FALSE, message |-> "", code |-> ""]

Thrown(error) == [thrown |-> TRUE, message |-> error.message, code |-> error.code]

NoFlow == [kind |-> "none", pc |-> "idle", productId |-> "", useCoupon |-> FALSE,
           result |-> NoResult, sdkError |-> NoSdkError, retry |-> FALSE, offered |-> {},
           localSub |-> Undefined, verifyPosts |-> 0,
           verify |-> "none", toast |-> "none", toastText |-> "", returned |-> "none"]

NoNet == [verifyPosts |-> 0, checkoutPosts |-> 0, checkoutCoupon |-> "",
          configureCalls |-> 0, purchaseCalls |-> 0, restoreCalls |-> 0,
          timers |-> 0, statusEvents |-> 0, logouts |-> 0, logOutCalls |-> 0]

\* String.prototype.trim on the coupon codes of the model
Trim(s) ==
    CASE s = " " -> ""
      [] s = " SAVE10 " -> "SAVE10"
      [] OTHER -> s

CouponCodes == {"", " ", " SAVE10 "}

\* the household views the query delivers
HouseholdViews ==
    {Undefined,
     Obj([hasPremium |-> Bool(FALSE)]),
     Obj([hasPremium |-> Bool(TRUE), subscriptionProvider |-> Str("revenuecat")])}

\* the user records of useAuth
Users ==
    {Undefined,
     Obj([subscriptionPlan |-> Str("basic")]),
     Obj([subscriptionPlan |-> Str("premium"), subscriptionProvider |-> Str("stripe")])}

\* the next free slot: invocations take the slots in order
CanStart(f) ==
    /\ flows[f].kind = "none"
    /\ \A g \in Flows : g < f => flows[g].kind # "none"

Started(f, kind) == [NoFlow EXCEPT !.kind = kind]

\* the flow ends: the toast it showed (or "none"), the value its promise resolves to
Finished(flow, toast, text, returned) ==
    [flow EXCEPT !.pc = "done", !.toast = toast, !.toastText = text, !.returned = returned]

At(f, kind, pc) == flows[f].kind = kind /\ flows[f].pc = pc

\* the decision the UI renders from the current state
Decision ==
    useHouseholdSubscription(householdStatus, usePurchases_hasPremium(activeSubscription),
                             Bool(isNativePlatform), user)

-----------------------------------------------------------------------------
(* usePurchases.initialize, with PurchasesService.initialize and setUserId *)

hookVars == <<isInitialized, isLoading, products, activeSubscription>>

envVars == <<isNativePlatform, apiKey, couponCode, householdStatus, user, staticVars>>

\* an initialize() flow ended in the catch block
InitializeErrored(flow) == flow.kind = "initialize" /\ flow.toast = "Initialization Error"

\* the invocation of initialize() in slot f; retry records that an earlier
\* initialize() had already ended in the catch block when this one was called
InitializeStarted(f) ==
    [Started(f, "initialize") EXCEPT !.retry = \E g \in Flows : InitializeErrored(flows[g])]

\* the catch block setting the hook initialized all the same
InitializeFailed_Initialized(f) ==
    /\ flows' = [flows EXCEPT ![f] =
            Finished(IF @.kind = "none" THEN InitializeStarted(f) ELSE @,
                     "Initialization Error",
                     "Failed to initialize purchases. Please restart the app.", "void")]
    /\ isLoading' = FALSE
    /\ isInitialized' = TRUE
    /\ UNCHANGED <<products, activeSubscription>>

\* the catch and finally blocks of initialize
InitializeFailed(f) ==
    /\ flows' = [flows EXCEPT ![f] =
            Finished(IF @.kind = "none" THEN InitializeStarted(f) ELSE @,
                     "Initialization Error",
                     "Failed to initialize purchases. Please restart the app.", "void")]
    /\ isLoading' = FALSE
    /\ UNCHANGED <<isInitialized, products, activeSubscription>>

\* initialize() is called: the guard, setIsLoading(true), the synchronous part of
\* PurchasesService.initialize up to its first await
InitializeCall(f) ==
    /\ CanStart(f)
    /\ IF ~isNativePlatform
       THEN /\ flows' = [flows EXCEPT ![f] = Finished(InitializeStarted(f), "none", "", "void")]
            /\ isLoading' = FALSE
            /\ UNCHANGED <<isInitialized, products, activeSubscription>>
       ELSE IF svcInitialized
       THEN \* the service returns at once; the hook goes on to GET /api/auth/profile
            /\ flows' = [flows EXCEPT ![f] = [InitializeStarted(f) EXCEPT !.pc = "profile"]]
            /\ isLoading' = TRUE
            /\ UNCHANGED <<isInitialized, products, activeSubscription>>
       ELSE IF apiKey = ""
       THEN InitializeFailed(f)
       ELSE /\ flows' = [flows EXCEPT ![f] = [InitializeStarted(f) EXCEPT !.pc = "setLogLevel"]]
            /\ isLoading' = TRUE
            /\ UNCHANGED <<isInitialized, products, activeSubscription>>
    /\ UNCHANGED <<svcInitialized, pageIsLoading, net, envVars>>

\* Purchases.setLogLevel settles; on success Purchases.configure is called
InitSetLogLevelDone(f) ==
    /\ At(f, "initialize", "setLogLevel")
    /\ \E ok \in BOOLEAN :
         IF ok
         THEN /\ flows' = [flows EXCEPT ![f].pc = "configure"]
              /\ net' = [net EXCEPT !.configureCalls = @ + 1]
              /\ UNCHANGED hookVars
         ELSE /\ InitializeFailed(f)
              /\ UNCHANGED net
    /\ UNCHANGED <<svcInitialized, pageIsLoading, envVars>>

\* Purchases.configure settles; on success the service is initialized and the hook
\* requests the profile
InitConfigureDone(f) ==
    /\ At(f, "initialize", "configure")
    /\ \E ok \in BOOLEAN :
         IF ok
         THEN /\ svcInitialized' = TRUE
              /\ flows' = [flows EXCEPT ![f].pc = "profile"]
              /\ UNCHANGED hookVars
         ELSE /\ InitializeFailed(f)
              /\ UNCHANGED svcInitialized
    /\ UNCHANGED <<pageIsLoading, net, envVars>>

\* the end of initialize: setIsInitialized(true), finally setIsLoading(false)
InitializeSucceeded(f) ==
    /\ flows' = [flows EXCEPT ![f] = Finished(@, "none", "", "void")]
    /\ isInitialized' = TRUE
    /\ isLoading' = FALSE
    /\ UNCHANGED <<products, activeSubscription>>

\* GET /api/auth/profile settles: with an id setUserId logs in, otherwise (no id, or
\* the request failed: the inner catch) initialization completes
InitProfileDone(f) ==
    /\ At(f, "initialize", "profile")
    /\ \E outcome \in {"id", "no id", "reject"} :
         IF outcome = "id" /\ svcInitialized /\ isNativePlatform
         THEN /\ flows' = [flows EXCEPT ![f].pc = "logIn"]
              /\ UNCHANGED hookVars
         ELSE InitializeSucceeded(f)
    /\ UNCHANGED <<svcInitialized, pageIsLoading, net, envVars>>

\* Purchases.logIn settles: a rejection is caught by the inner catch
InitLogInDone(f) ==
    /\ At(f, "initialize", "logIn")
    /\ InitializeSucceeded(f)
    /\ UNCHANGED <<svcInitialized, pageIsLoading, net, envVars>>

-----------------------------------------------------------------------------
(* usePurchases.fetchProducts, with getSubscriptionProducts and getActiveSubscription *)

\* the products the offerings hold: the current offering's packages, [] when the
\* SDK call fails or there is no current offering
OfferingSets == SUBSET ProductIds

FetchProductsCall(f) ==
    /\ CanStart(f)
    /\ IF ~isInitialized \/ ~isNativePlatform
       THEN /\ flows' = [flows EXCEPT ![f] = Finished(Started(f, "fetchProducts"), "none", "", "void")]
            /\ isLoading' = FALSE
            /\ UNCHANGED <<isInitialized, products, activeSubscription>>
       ELSE IF ~svcInitialized
       THEN \* getOfferings and getCustomerInfo return [] and null without an SDK call
            /\ flows' = [flows EXCEPT ![f] = Finished(Started(f, "fetchProducts"), "none", "", "void")]
            /\ products' = {}
            /\ activeSubscription' = Null
            /\ isLoading' = FALSE
            /\ UNCHANGED isInitialized
       ELSE /\ flows' = [flows EXCEPT ![f] = [Started(f, "fetchProducts") EXCEPT !.pc = "offerings"]]
            /\ isLoading' = TRUE
            /\ UNCHANGED <<isInitialized, products, activeSubscription>>
    /\ UNCHANGED <<svcInitialized, pageIsLoading, net, envVars>>

\* Purchases.getOfferings settles: setProducts, then getCustomerInfo is called
FetchOfferingsDone(f) ==
    /\ At(f, "fetchProducts", "offerings")
    /\ \E offered \in OfferingSets :
         /\ products' = offered
         /\ flows' = [flows EXCEPT ![f].pc = "customerInfo"]
    /\ UNCHANGED <<isInitialized, isLoading, activeSubscription>>
    /\ UNCHANGED <<svcInitialized, pageIsLoading, net, envVars>>

\* Purchases.getCustomerInfo settles: setActiveSubscription, finally setIsLoading(false)
FetchCustomerInfoDone(f) ==
    /\ At(f, "fetchProducts", "customerInfo")
    /\ \E outcome \in CustomerInfoOutcomes :
         /\ activeSubscription' = getActiveSubscription(outcome)
         /\ flows' = [flows EXCEPT ![f] = Finished([@ EXCEPT !.localSub = getActiveSubscription(outcome)],
                                                   "none", "", "void")]
    /\ isLoading' = FALSE
    /\ UNCHANGED <<isInitialized, products>>
    /\ UNCHANGED <<svcInitialized, pageIsLoading, net, envVars>>

-----------------------------------------------------------------------------
(* usePurchases.verifyWithBackend *)

\* the call of verifyWithBackend, up to its await: POST /api/revenuecat/verify is
\* issued on a native platform, and nothing happens elsewhere
VerifyIssued_Skipped(flow) == [flow EXCEPT !.pc = "verifying"]

VerifyIssued(flow) ==
    IF ~isNativePlatform THEN [flow EXCEPT !.pc = "verifying"]
    ELSE [flow EXCEPT !.pc = "verifying", !.verifyPosts = @ + 1, !.verify = "pending"]

\* the POST settles: on success the 'subscription-status-changed' timer is set,
\* a rejection is caught and logged
VerifySettled(flow, ok) == [flow EXCEPT !.verify = IF ok THEN "ok" ELSE "failed"]

\* the timer set whatever the POST's outcome
TimersSet_Always(ok) == 1

\* the timers verifyWithBackend sets when the POST settles: one after a success
\* (the setTimeout follows the await inside the try), none after a rejection
TimersSet(ok) == IF ok THEN 1 ELSE 0

-----------------------------------------------------------------------------
(* usePurchases.purchaseProduct, with PurchasesService.purchaseProduct *)

\* the hook going on to the subscription lookup and the verification whatever the result
PurchaseAfterResult_AnyResult(f, flow, result) ==
    /\ flows' = [flows EXCEPT ![f] = [flow EXCEPT !.result = result, !.pc = "customerInfo"]]
    /\ isLoading' = TRUE

\* the guard that only tests the platform
PurchasesUnavailable_NativeOnly == ~isNativePlatform

\* the guard of purchaseProduct and restorePurchases: !isInitialized || !isNativePlatform
PurchasesUnavailable == ~isInitialized \/ ~isNativePlatform

\* the hook toasting a cancellation like any other error
PurchaseAfterResult_CancelToasts(f, flow, result) ==
    IF result.success /\ result.customerInfo
    THEN /\ flows' = [flows EXCEPT ![f] = [flow EXCEPT !.result = result, !.pc = "customerInfo"]]
         /\ isLoading' = TRUE
    ELSE /\ isLoading' = FALSE
         /\ flows' = [flows EXCEPT ![f] =
              IF result.hasError
              THEN Finished([flow EXCEPT !.result = result],
                            "Purchase Failed", result.message, "false")
              ELSE Finished([flow EXCEPT !.result = result], "none", "", "false")]

\* the hook after PurchasesService.purchaseProduct returned result to the flow
PurchaseAfterResult(f, flow, result) ==
    IF result.success /\ result.customerInfo
    THEN \* getActiveSubscription is called: Purchases.getCustomerInfo
         /\ flows' = [flows EXCEPT ![f] = [flow EXCEPT !.result = result, !.pc = "customerInfo"]]
         /\ isLoading' = TRUE
    ELSE /\ isLoading' = FALSE
         /\ flows' = [flows EXCEPT ![f] =
              IF result.hasError /\ result.code # "PURCHASE_CANCELLED"
              THEN Finished([flow EXCEPT !.result = result],
                            "Purchase Failed", result.message, "false")
              ELSE Finished([flow EXCEPT !.result = result], "none", "", "false")]

PurchaseProductCall(f, productId) ==
    /\ CanStart(f)
    /\ IF PurchasesUnavailable
       THEN \* throw new Error(...): the catch toasts, finally setIsLoading(false)
            /\ flows' = [flows EXCEPT ![f] =
                 Finished([Started(f, "purchaseProduct") EXCEPT !.productId = productId],
                          "Purchase Error", "Purchases not available on this platform", "false")]
            /\ isLoading' = FALSE
       ELSE IF ~svcInitialized
       THEN PurchaseAfterResult(f, [Started(f, "purchaseProduct") EXCEPT !.productId = productId],
                ErrorResult(JsError("RevenueCat not initialized or not on native platform"),
                            "Purchase failed"))
       ELSE \* setIsLoading(true); the service awaits getOfferings
            /\ flows' = [flows EXCEPT ![f] =
                 [Started(f, "purchaseProduct") EXCEPT !.productId = productId, !.pc = "offerings"]]
            /\ isLoading' = TRUE
    /\ UNCHANGED <<isInitialized, products, activeSubscription>>
    /\ UNCHANGED <<svcInitialized, pageIsLoading, net, envVars>>

\* any package passing for the one looked up
PackageFound_Always(productId, offered) == TRUE

\* availablePackages.find(pkg => pkg.product?.identifier === productId) found a package
PackageFound(productId, offered) == productId \in offered

\* Purchases.getOfferings settles: the package of productId is purchased, or the
\* service throws 'Product ... not found in offerings'
PurchaseOfferingsDone(f) ==
    /\ At(f, "purchaseProduct", "offerings")
    /\ \E offered \in OfferingSets :
         IF PackageFound(flows[f].productId, offered)
         THEN /\ flows' = [flows EXCEPT ![f].pc = "purchasing", ![f].offered = offered]
              /\ net' = [net EXCEPT !.purchaseCalls = @ + 1]
              /\ isLoading' = isLoading
         ELSE /\ PurchaseAfterResult(f, [flows[f] EXCEPT !.offered = offered],
                                     ErrorResult(JsError("Product " \o flows[f].productId
                                                         \o " not found in offerings"),
                                                 "Purchase failed"))
              /\ UNCHANGED net
    /\ UNCHANGED <<isInitialized, products, activeSubscription>>
    /\ UNCHANGED <<svcInitialized, pageIsLoading, envVars>>

\* Purchases.purchasePackage settles: it resolves with the customer info (a
\* MakePurchaseResult always carries it) or rejects with the SDK's error
PurchasePackageDone(f) ==
    /\ At(f, "purchaseProduct", "purchasing")
    /\ \/ PurchaseAfterResult(f, flows[f], SuccessResult(TRUE))
       \/ \E error \in SdkErrors :
            PurchaseAfterResult(f, [flows[f] EXCEPT !.sdkError = Thrown(error)],
                                ErrorResult(error, "Purchase failed"))
    /\ UNCHANGED <<isInitialized, products, activeSubscription>>
    /\ UNCHANGED <<svcInitialized, pageIsLoading, net, envVars>>

\* Purchases.purchasePackage resolves with a result that carries no customerInfo
\* (outside its declared type): the service returns {success: true, customerInfo:
\* undefined}
PurchasePackageBare(f) ==
    /\ At(f, "purchaseProduct", "purchasing")
    /\ PurchaseAfterResult(f, flows[f], SuccessResult(FALSE))
    /\ UNCHANGED <<isInitialized, products, activeSubscription>>
    /\ UNCHANGED <<svcInitialized, pageIsLoading, net, envVars>>

\* getActiveSubscription settles: setActiveSubscription, then verifyWithBackend is called
PurchaseCustomerInfoDone(f) ==
    /\ At(f, "purchaseProduct", "customerInfo")
    /\ \E outcome \in CustomerInfoOutcomes :
         /\ activeSubscription' = getActiveSubscription(outcome)
         /\ flows' = [flows EXCEPT ![f] =
              VerifyIssued([@ EXCEPT !.localSub = getActiveSubscription(outcome)])]
    /\ net' = [net EXCEPT !.verifyPosts = @ + (flows'[f].verifyPosts - flows[f].verifyPosts)]
    /\ UNCHANGED <<isInitialized, isLoading, products>>
    /\ UNCHANGED <<svcInitialized, pageIsLoading, envVars>>

\* verifyWithBackend returns: the success toast, return true, finally setIsLoading(false)
PurchaseVerifyDone(f) ==
    /\ At(f, "purchaseProduct", "verifying")
    /\ \E ok \in BOOLEAN :
         /\ IF flows[f].verify = "pending"
            THEN /\ flows' = [flows EXCEPT ![f] =
                      Finished(VerifySettled(@, ok), "Purchase Successful!",
                               "Welcome to Premium! Your subscription is now active.", "true")]
                 /\ net' = [net EXCEPT !.timers = @ + TimersSet(ok)]
            ELSE /\ flows' = [flows EXCEPT ![f] =
                      Finished(@, "Purchase Successful!",
                               "Welcome to Premium! Your subscription is now active.", "true")]
                 /\ UNCHANGED net
    /\ isLoading' = FALSE
    /\ UNCHANGED <<isInitialized, products, activeSubscription>>
    /\ UNCHANGED <<svcInitialized, pageIsLoading, envVars>>

-----------------------------------------------------------------------------
(* usePurchases.restorePurchases, with PurchasesService.restorePurchases *)

\* the hook after PurchasesService.restorePurchases returned result to the flow
RestoreAfterResult(f, flow, result) ==
    IF result.success /\ result.customerInfo
    THEN /\ flows' = [flows EXCEPT ![f] = [flow EXCEPT !.result = result, !.pc = "customerInfo"]]
         /\ isLoading' = TRUE
    ELSE /\ isLoading' = FALSE
         /\ flows' = [flows EXCEPT ![f] =
              IF result.hasError
              THEN Finished([flow EXCEPT !.result = result],
                            "Restore Failed", result.message, "false")
              ELSE Finished([flow EXCEPT !.result = result], "none", "", "false")]

RestorePurchasesCall(f) ==
    /\ CanStart(f)
    /\ IF PurchasesUnavailable
       THEN /\ flows' = [flows EXCEPT ![f] =
                 Finished(Started(f, "restorePurchases"),
                          "Restore Error", "Purchases not available on this platform", "false")]
            /\ isLoading' = FALSE
            /\ UNCHANGED net
       ELSE IF ~svcInitialized
       THEN /\ RestoreAfterResult(f, Started(f, "restorePurchases"),
                   ErrorResult(JsError("RevenueCat not initialized or not on native platform"),
                               "Restore failed"))
            /\ UNCHANGED net
       ELSE \* setIsLoading(true); the service calls Purchases.restorePurchases
            /\ flows' = [flows EXCEPT ![f] = [Started(f, "restorePurchases") EXCEPT !.pc = "restoring"]]
            /\ net' = [net EXCEPT !.restoreCalls = @ + 1]
            /\ isLoading' = TRUE
    /\ UNCHANGED <<isInitialized, products, activeSubscription>>
    /\ UNCHANGED <<svcInitialized, pageIsLoading, envVars>>

\* Purchases.restorePurchases settles: it resolves with the customer info or rejects
RestoreDone(f) ==
    /\ At(f, "restorePurchases", "restoring")
    /\ \/ RestoreAfterResult(f, flows[f], SuccessResult(TRUE))
       \/ \E error \in SdkErrors :
            RestoreAfterResult(f, [flows[f] EXCEPT !.sdkError = Thrown(error)],
                               ErrorResult(error, "Restore failed"))
    /\ UNCHANGED <<isInitialized, products, activeSubscription>>
    /\ UNCHANGED <<svcInitialized, pageIsLoading, net, envVars>>

\* getActiveSubscription settles: setActiveSubscription, then verifyWithBackend is called
RestoreCustomerInfoDone(f) ==
    /\ At(f, "restorePurchases", "customerInfo")
    /\ \E outcome \in CustomerInfoOutcomes :
         /\ activeSubscription' = getActiveSubscription(outcome)
         /\ flows' = [flows EXCEPT ![f] =
              VerifyIssued([@ EXCEPT !.localSub = getActiveSubscription(outcome)])]
    /\ net' = [net EXCEPT !.verifyPosts = @ + (flows'[f].verifyPosts - flows[f].verifyPosts)]
    /\ UNCHANGED <<isInitialized, isLoading, products>>
    /\ UNCHANGED <<svcInitialized, pageIsLoading, envVars>>

\* the restored toast whatever the lookup found
RestoreToast_AlwaysRestored(flow) ==
    Finished(flow, "Purchases Restored!", "Your Premium subscription has been restored.", "true")

\* the toast of restorePurchases after verifyWithBackend returned
RestoreToast(flow) ==
    IF Truthy(OptGet(flow.localSub, "isActive"))
    THEN Finished(flow, "Purchases Restored!", "Your Premium subscription has been restored.", "true")
    ELSE Finished(flow, "No Purchases Found", "No active subscriptions found to restore.", "true")

\* verifyWithBackend returns: the toast, return true, finally setIsLoading(false)
RestoreVerifyDone(f) ==
    /\ At(f, "restorePurchases", "verifying")
    /\ \E ok \in BOOLEAN :
         /\ IF flows[f].verify = "pending"
            THEN /\ flows' = [flows EXCEPT ![f] = RestoreToast(VerifySettled(@, ok))]
                 /\ net' = [net EXCEPT !.timers = @ + TimersSet(ok)]
            ELSE /\ flows' = [flows EXCEPT ![f] = RestoreToast(@)]
                 /\ UNCHANGED net
    /\ isLoading' = FALSE
    /\ UNCHANGED <<isInitialized, products, activeSubscription>>
    /\ UNCHANGED <<svcInitialized, pageIsLoading, envVars>>

-----------------------------------------------------------------------------
(* pages/Pricing.tsx handleUpgrade *)

\* the platform gate of handleUpgrade
CheckoutBlocked_Never == FALSE

CheckoutBlocked == isNativePlatform

\* handleUpgrade(useCoupon) is called: blocked on a native platform, otherwise
\* setIsLoading(true) and POST /api/create-checkout-session
HandleUpgradeCall(f, useCoupon) ==
    /\ CanStart(f)
    /\ IF CheckoutBlocked
       THEN /\ flows' = [flows EXCEPT ![f] =
                 Finished([Started(f, "handleUpgrade") EXCEPT !.useCoupon = useCoupon],
                          "Not Available",
                          "Web subscriptions are not available in the mobile app. Please use the in-app purchase options.",
                          "void")]
            /\ UNCHANGED <<pageIsLoading, net>>
       ELSE /\ pageIsLoading' = TRUE
            /\ flows' = [flows EXCEPT ![f] =
                 [Started(f, "handleUpgrade") EXCEPT !.useCoupon = useCoupon, !.pc = "checkout"]]
            /\ net' = [net EXCEPT !.checkoutPosts = @ + 1,
                                  !.checkoutCoupon = IF useCoupon /\ Trim(couponCode) # ""
                                                     THEN Trim(couponCode) ELSE ""]
    /\ UNCHANGED <<hookVars, svcInitialized, envVars>>

\* the POST settles: a url redirects the page, no url or a rejection toasts the
\* error and clears the page's isLoading
CheckoutDone(f) ==
    /\ At(f, "handleUpgrade", "checkout")
    /\ \E outcome \in {"url", "no url", "reject"} :
         IF outcome = "url"
         THEN /\ flows' = [flows EXCEPT ![f] = Finished(@, "none", "", "void")]
              /\ UNCHANGED pageIsLoading
         ELSE /\ flows' = [flows EXCEPT ![f] =
                   Finished(@, "Checkout Error",
                            IF outcome = "no url" THEN "No checkout URL received"
                            ELSE "Failed to start checkout process", "void")]
              /\ pageIsLoading' = FALSE
    /\ UNCHANGED <<hookVars, svcInitialized, net, envVars>>

-----------------------------------------------------------------------------
(* The collaborators *)

\* the household subscription query delivers a view
HouseholdQueryResolve ==
    /\ \E view \in HouseholdViews \ {householdStatus} : householdStatus' = view
    /\ UNCHANGED <<isNativePlatform, apiKey, couponCode, user, staticVars>>
    /\ UNCHANGED <<hookVars, svcInitialized, pageIsLoading, flows, net>>

\* the timer of verifyWithBackend fires: 'subscription-status-changed' is dispatched
StatusChangedTimer ==
    /\ net.timers > 0
    /\ net' = [net EXCEPT !.timers = @ - 1, !.statusEvents = @ + 1]
    /\ UNCHANGED <<hookVars, svcInitialized, pageIsLoading, flows, envVars>>

-----------------------------------------------------------------------------
(* hooks/useAuth.ts logout and PurchasesService.logout *)

\* useAuth().logout(): on a native platform mobileAuthService.logout() and
\* queryClient.clear(), which empties the cached user and household view; on the
\* web the page navigates to /api/logout and the application starts over
AuthLogout ==
    /\ net.logouts < MaxLogouts
    /\ net' = [net EXCEPT !.logouts = @ + 1]
    /\ householdStatus' = Undefined
    /\ user' = Undefined
    /\ IF isNativePlatform
       THEN UNCHANGED <<hookVars, pageIsLoading, flows>>
       ELSE /\ isInitialized' = FALSE
            /\ isLoading' = FALSE
            /\ products' = {}
            /\ activeSubscription' = Null
            /\ pageIsLoading' = FALSE
            /\ flows' = [f \in Flows |-> NoFlow]
    /\ UNCHANGED <<svcInitialized, isNativePlatform, apiKey, couponCode, staticVars>>

\* PurchasesService.logout(): Purchases.logOut() when the service is initialized on
\* a native platform (a rejection is caught and logged), nothing otherwise; the
\* service's isInitialized is not written
ServiceLogout ==
    /\ net.logOutCalls < MaxLogouts
    /\ svcInitialized /\ isNativePlatform
    /\ net' = [net EXCEPT !.logOutCalls = @ + 1]
    /\ UNCHANGED <<hookVars, svcInitialized, pageIsLoading, flows, envVars>>

-----------------------------------------------------------------------------
(* services/purchases.ts: the methods of PurchasesService called directly, each  *)
(* call running to its return.  call is the method, its arguments and the SDK   *)
(* operations it invoked; ret is what it returned or threw.                      *)

SvcCall(fn, args, sdk) == [fn |-> "PurchasesService." \o fn, args |-> args, sdk |-> sdk]

\* the method returned value, or threw
SvcReturn(value) == [t |-> "return", value |-> value]

SvcThrow(message) == [t |-> "throw", message |-> message]

\* the guard dropped
SvcReady_Always == TRUE

\* the negation of the guard '!this.isInitialized || !Capacitor.isNativePlatform()'
SvcReady == svcInitialized /\ isNativePlatform

svcFrame == UNCHANGED <<hookVars, pageIsLoading, flows, isNativePlatform, apiKey, couponCode, householdStatus, user, PLAN_LIMITS, clock>>

Svc_initialize ==
    /\ (~svcInitialized /\ isNativePlatform /\ apiKey # "") => net.configureCalls < MaxSdkCalls
    /\ \E outcome \in {"ok", "setLogLevel rejects", "configure rejects"} :
         IF svcInitialized \/ ~isNativePlatform
         THEN /\ call' = SvcCall("initialize", <<>>, {})
              /\ ret' = SvcReturn(Undefined)
              /\ UNCHANGED <<svcInitialized, net>>
         ELSE IF apiKey = ""
         THEN /\ call' = SvcCall("initialize", <<>>, {})
              /\ ret' = SvcThrow("RevenueCat API key not configured for platform")
              /\ UNCHANGED <<svcInitialized, net>>
         ELSE IF outcome = "setLogLevel rejects"
         THEN /\ call' = SvcCall("initialize", <<>>, {"setLogLevel"})
              /\ ret' = SvcThrow("setLogLevel")
              /\ UNCHANGED <<svcInitialized, net>>
         ELSE /\ call' = SvcCall("initialize", <<>>, {"setLogLevel", "configure"})
              /\ net' = [net EXCEPT !.configureCalls = @ + 1]
              /\ IF outcome = "ok"
                 THEN svcInitialized' = TRUE /\ ret' = SvcReturn(Undefined)
                 ELSE svcInitialized' = svcInitialized /\ ret' = SvcThrow("configure")
    /\ svcFrame

Svc_setUserId ==
    /\ \E ok \in BOOLEAN :
         IF ~SvcReady
         THEN /\ call' = SvcCall("setUserId", <<Str("u1")>>, {})
              /\ ret' = SvcReturn(Undefined)
         ELSE /\ call' = SvcCall("setUserId", <<Str("u1")>>, {"logIn"})
              /\ ret' = IF ok THEN SvcReturn(Undefined) ELSE SvcThrow("logIn")
    /\ UNCHANGED <<svcInitialized, net>>
    /\ svcFrame

\* a rejection of Purchases.getOfferings, and offerings without a current one, give []
Svc_getOfferings ==
    /\ \E offered \in OfferingSets :
         IF ~SvcReady
         THEN /\ call' = SvcCall("getOfferings", <<>>, {})
              /\ ret' = SvcReturn({})
         ELSE /\ call' = SvcCall("getOfferings", <<>>, {"getOfferings"})
              /\ ret' = SvcReturn(offered)
    /\ UNCHANGED <<svcInitialized, net>>
    /\ svcFrame

Svc_purchaseProduct(productId) ==
    /\ SvcReady => net.purchaseCalls < MaxSdkCalls
    /\ \E offered \in OfferingSets, result \in {SuccessResult(TRUE)}
                      \cup {ErrorResult(error, "Purchase failed") : error \in SdkErrors} :
         IF ~SvcReady
         THEN /\ call' = SvcCall("purchaseProduct", <<Str(productId)>>, {})
              /\ ret' = SvcReturn(ErrorResult(JsError("RevenueCat not initialized or not on native platform"),
                                              "Purchase failed"))
              /\ UNCHANGED net
         ELSE IF productId \notin offered
         THEN /\ call' = SvcCall("purchaseProduct", <<Str(productId)>>, {"getOfferings"})
              /\ ret' = SvcReturn(ErrorResult(JsError("Product " \o productId \o " not found in offerings"),
                                              "Purchase failed"))
              /\ UNCHANGED net
         ELSE /\ call' = SvcCall("purchaseProduct", <<Str(productId)>>,
                                 {"getOfferings", "purchasePackage"})
              /\ ret' = SvcReturn(result)
              /\ net' = [net EXCEPT !.purchaseCalls = @ + 1]
    /\ UNCHANGED svcInitialized
    /\ svcFrame

Svc_restorePurchases ==
    /\ SvcReady => net.restoreCalls < MaxSdkCalls
    /\ \E result \in {SuccessResult(TRUE)}
                      \cup {ErrorResult(error, "Restore failed") : error \in SdkErrors} :
         IF ~SvcReady
         THEN /\ call' = SvcCall("restorePurchases", <<>>, {})
              /\ ret' = SvcReturn(ErrorResult(JsError("RevenueCat not initialized or not on native platform"),
                                              "Restore failed"))
              /\ UNCHANGED net
         ELSE /\ call' = SvcCall("restorePurchases", <<>>, {"restorePurchases"})
              /\ ret' = SvcReturn(result)
              /\ net' = [net EXCEPT !.restoreCalls = @ + 1]
    /\ UNCHANGED svcInitialized
    /\ svcFrame

\* getCustomerInfo returns null without the SDK when the guard fails
Svc_getActiveSubscription ==
    /\ \E outcome \in CustomerInfoOutcomes :
         IF ~SvcReady
         THEN /\ call' = SvcCall("getActiveSubscription", <<>>, {})
              /\ ret' = SvcReturn(Null)
         ELSE /\ call' = SvcCall("getActiveSubscription", <<>>, {"getCustomerInfo"})
              /\ ret' = SvcReturn(getActiveSubscription(outcome))
    /\ UNCHANGED <<svcInitialized, net>>
    /\ svcFrame

Svc_logout ==
    /\ SvcReady => net.logOutCalls < MaxSdkCalls
    /\ IF ~SvcReady
       THEN /\ call' = SvcCall("logout", <<>>, {})
            /\ UNCHANGED net
       ELSE /\ call' = SvcCall("logout", <<>>, {"logOut"})
            /\ net' = [net EXCEPT !.logOutCalls = @ + 1]
    /\ ret' = SvcReturn(Undefined)
    /\ UNCHANGED svcInitialized
    /\ svcFrame

-----------------------------------------------------------------------------
(* Evaluations of the pure functions: call is the function and its arguments,  *)
(* ret its result once evaluated.                                              *)

\* no result yet
Pending == [t |-> "pending"]

OptionalStrings(S) == {Undefined} \cup {Str(x) : x \in S}

\* Date | string | undefined: dates and ISO strings of the instants, an invalid
\* Date, the empty string, a string that is no date
EndsAtValues ==
    {Undefined, Str(""), Str("not-a-date"), DateObj(NaN)}
    \cup {DateObj(Ms(n)) : n \in 0..MaxTime}
    \cup {Str(ToISOString(n)) : n \in 0..MaxTime}

Providers == {"stripe", "revenuecat"}

\* the HouseholdSubscriptionStatus values: hasPremium, and an optional provider
AllHouseholdViews ==
    {Undefined}
    \cup {Obj([hasPremium |-> Bool(b)]) : b \in BOOLEAN}
    \cup {Obj([hasPremium |-> Bool(b), subscriptionProvider |-> Str(p)]) :
            b \in BOOLEAN, p \in Providers}

\* the user records: subscriptionPlan and subscriptionProvider are both optional
AllUsers ==
    {Undefined, Obj([id |-> Str("u1")])}
    \cup {Obj([subscriptionPlan |-> Str(pl)]) : pl \in Plans}
    \cup {Obj([subscriptionProvider |-> Str(p)]) : p \in Providers}
    \cup {Obj([subscriptionPlan |-> Str(pl), subscriptionProvider |-> Str(p)]) :
            pl \in Plans, p \in Providers}

PureCalls ==
    {[fn |-> "getPlanLimits", args |-> <<Str(p)>>] : p \in Plans}
    \cup {[fn |-> "canUserAccessFeature", args |-> <<Str(p), Str(k)>>] :
            p \in Plans, k \in FeatureKeys \cup LimitKeys}
    \cup {[fn |-> "canHouseholdAccessFeature", args |-> <<Bool(b), Str(k)>>] :
            b \in BOOLEAN, k \in FeatureKeys \cup LimitKeys}
    \cup {[fn |-> "hasReachedLimit", args |-> <<Num(c), Num(l)>>] :
            c \in (-MaxCount)..MaxCount, l \in (-MaxCount)..MaxCount}
    \cup {[fn |-> "hasActiveSubscription", args |-> <<pl, st, e, pr>>] :
            pl \in OptionalStrings(Plans),
            st \in OptionalStrings({"active", "canceled", "past_due"}),
            e \in EndsAtValues,
            pr \in OptionalStrings(Providers)}
    \cup {[fn |-> "getSubscriptionDisplayInfo", args |-> <<pr>>] :
            pr \in OptionalStrings(Providers)}
    \cup {[fn |-> "useHouseholdSubscription", args |-> <<hh, Bool(m), Bool(n), u>>] :
            hh \in AllHouseholdViews, m \in BOOLEAN, n \in BOOLEAN, u \in AllUsers}

Calling(fn) == call.fn = fn /\ ret = Pending

Returned(fn) == call.fn = fn /\ ret # Pending

pureFrame == UNCHANGED <<PLAN_LIMITS, call, clock, appVars>>

Eval_getPlanLimits ==
    /\ Calling("getPlanLimits")
    /\ ret' = getPlanLimits(call.args[1].s)
    /\ pureFrame

Eval_canUserAccessFeature ==
    /\ Calling("canUserAccessFeature")
    /\ ret' = canUserAccessFeature(call.args[1].s, call.args[2].s)
    /\ pureFrame

Eval_canHouseholdAccessFeature ==
    /\ Calling("canHouseholdAccessFeature")
    /\ ret' = canHouseholdAccessFeature(call.args[1], call.args[2].s)
    /\ pureFrame

Eval_hasReachedLimit ==
    /\ Calling("hasReachedLimit")
    /\ ret' = Bool(hasReachedLimit(call.args[1].n, call.args[2].n))
    /\ pureFrame

Eval_hasActiveSubscription ==
    /\ Calling("hasActiveSubscription")
    /\ ret' = Bool(hasActiveSubscription(call.args[1], call.args[2], call.args[3],
                                         call.args[4], clock))
    /\ pureFrame

Eval_getSubscriptionDisplayInfo ==
    /\ Calling("getSubscriptionDisplayInfo")
    /\ ret' = Obj(getSubscriptionDisplayInfo(call.args[1]))
    /\ pureFrame

Eval_useHouseholdSubscription ==
    /\ Calling("useHouseholdSubscription")
    /\ ret' = Obj(useHouseholdSubscription(call.args[1], call.args[2], call.args[3],
                                           call.args[4]))
    /\ pureFrame

-----------------------------------------------------------------------------
(* The application *)

PureIdle ==
    /\ call = [fn |-> "none", args |-> <<>>]
    /\ ret = Pending
    /\ clock = DateObj(Ms(0))

Init ==
    /\ PLAN_LIMITS = PlanLimitsLiteral
    /\ PureIdle
    /\ isNativePlatform \in BOOLEAN
    /\ apiKey \in (IF isNativePlatform THEN {"", "key"} ELSE {""})
    /\ couponCode \in (IF isNativePlatform THEN {" SAVE10 "} ELSE CouponCodes)
    /\ user \in Users
    /\ householdStatus = Undefined
    /\ isInitialized = FALSE
    /\ isLoading = FALSE
    /\ products = {}
    /\ activeSubscription = Null
    /\ svcInitialized = FALSE
    /\ pageIsLoading = FALSE
    /\ flows = [f \in Flows |-> NoFlow]
    /\ net = NoNet

Next ==
    \/ \E f \in Flows : InitializeCall(f)
    \/ \E f \in Flows : InitSetLogLevelDone(f)
    \/ \E f \in Flows : InitConfigureDone(f)
    \/ \E f \in Flows : InitProfileDone(f)
    \/ \E f \in Flows : InitLogInDone(f)
    \/ \E f \in Flows : FetchProductsCall(f)
    \/ \E f \in Flows : FetchOfferingsDone(f)
    \/ \E f \in Flows : FetchCustomerInfoDone(f)
    \/ \E f \in Flows, productId \in ProductIds : PurchaseProductCall(f, productId)
    \/ \E f \in Flows : PurchaseOfferingsDone(f)
    \/ \E f \in Flows : PurchasePackageDone(f)
    \/ \E f \in Flows : PurchaseCustomerInfoDone(f)
    \/ \E f \in Flows : PurchaseVerifyDone(f)
    \/ \E f \in Flows : RestorePurchasesCall(f)
    \/ \E f \in Flows : RestoreDone(f)
    \/ \E f \in Flows : RestoreCustomerInfoDone(f)
    \/ \E f \in Flows : RestoreVerifyDone(f)
    \/ \E f \in Flows, useCoupon \in BOOLEAN : HandleUpgradeCall(f, useCoupon)
    \/ \E f \in Flows : CheckoutDone(f)
    \/ HouseholdQueryResolve
    \/ StatusChangedTimer

Spec == Init /\ [][Next]_vars

\* the application before anything ran, on the web
AppIdle ==
    /\ isNativePlatform = FALSE
    /\ apiKey = ""
    /\ couponCode = ""
    /\ user = Undefined
    /\ householdStatus = Undefined
    /\ isInitialized = FALSE
    /\ isLoading = FALSE
    /\ products = {}
    /\ activeSubscription = Null
    /\ svcInitialized = FALSE
    /\ pageIsLoading = FALSE
    /\ flows = [f \in Flows |-> NoFlow]
    /\ net = NoNet

PureInit ==
    /\ PLAN_LIMITS = PlanLimitsLiteral
    /\ call \in PureCalls
    /\ ret = Pending
    /\ clock \in (IF call.fn = "hasActiveSubscription"
                  THEN {DateObj(Ms(n)) : n \in 0..MaxTime}
                  ELSE {DateObj(Ms(0))})
    /\ AppIdle

PureNext ==
    \/ Eval_getPlanLimits
    \/ Eval_canUserAccessFeature
    \/ Eval_canHouseholdAccessFeature
    \/ Eval_hasReachedLimit
    \/ Eval_hasActiveSubscription
    \/ Eval_getSubscriptionDisplayInfo
    \/ Eval_useHouseholdSubscription

PureSpec == PureInit /\ [][PureNext]_vars

\* an awaited call settles: the step of a suspended flow
Settle(f) ==
    \/ InitSetLogLevelDone(f)
    \/ InitConfigureDone(f)
    \/ InitProfileDone(f)
    \/ InitLogInDone(f)
    \/ FetchOfferingsDone(f)
    \/ FetchCustomerInfoDone(f)
    \/ PurchaseOfferingsDone(f)
    \/ PurchasePackageDone(f)
    \/ PurchaseCustomerInfoDone(f)
    \/ PurchaseVerifyDone(f)
    \/ RestoreDone(f)
    \/ RestoreCustomerInfoDone(f)
    \/ RestoreVerifyDone(f)
    \/ CheckoutDone(f)

\* the application with logouts
TeardownNext ==
    \/ Next
    \/ AuthLogout
    \/ ServiceLogout

TeardownSpec == Init /\ [][TeardownNext]_vars

\* the service on its own: any sequence of calls of its methods
ServiceNext ==
    \/ Svc_initialize
    \/ Svc_setUserId
    \/ Svc_getOfferings
    \/ \E productId \in ProductIds : Svc_purchaseProduct(productId)
    \/ Svc_restorePurchases
    \/ Svc_getActiveSubscription
    \/ Svc_logout

ServiceSpec == Init /\ [][ServiceNext]_vars

\* the application when the SDK is not held to its declared result type
UntypedNext ==
    \/ Next
    \/ \E f \in Flows : PurchasePackageBare(f)

UntypedSpec == Init /\ [][UntypedNext]_vars

\* every awaited call eventually resolves or rejects
FairSpec == Spec /\ \A f \in Flows : WF_vars(Settle(f))

-----------------------------------------------------------------------------
(* Properties *)

PurchaseKinds == {"purchaseProduct", "restorePurchases"}

HookKinds == {"initialize", "fetchProducts", "purchaseProduct", "restorePurchases"}

\* usePurchases().hasPremium as the UI reads it
MobilePremium == Truthy(usePurchases_hasPremium(activeSubscription))

\* the reconciled hasPremium as the UI reads it
DecisionPremium == Truthy(Decision.hasPremium)

HouseholdPremium == Truthy(OptGet(householdStatus, "hasPremium"))

UserPremium == StrictEqStr(OptGet(user, "subscriptionPlan"), "premium")

\* C1: for every combination of household view (absent, or with hasPremium true or
\* false), platform, mobile entitlement and user plan (absent, basic, premium), the
\* hasPremium that useHouseholdSubscription returns is householdPremium OR
\* (isNative AND mobilePremium) OR userPlanIsPremium.
C1_ReconciliationIsOr ==
    Returned("useHouseholdSubscription") =>
        LET hh == call.args[1]
            usr == call.args[4]
            householdPremium == hh.t = "object" /\ hh.fields.hasPremium.b
            isNative == call.args[3].b
            mobilePremium == call.args[2].b
            userPlanIsPremium ==
                /\ usr.t = "object"
                /\ "subscriptionPlan" \in DOMAIN usr.fields
                /\ usr.fields.subscriptionPlan.s = "premium"
        IN  ret.fields.hasPremium =
                Bool(householdPremium \/ (isNative /\ mobilePremium) \/ userPlanIsPremium)

\* C1 witness: only the mobile source reports premium, on a native platform, with a
\* loaded household view that says no: the decision is premium.
C1_Witness ==
    /\ Returned("useHouseholdSubscription")
    /\ call.args = <<Obj([hasPremium |-> Bool(FALSE)]), Bool(TRUE), Bool(TRUE),
                     Obj([subscriptionPlan |-> Str("basic")])>>
    /\ ret.fields.hasPremium = Bool(TRUE)

\* C2: in a purchaseProduct or restorePurchases flow, the entitlement the UI sees
\* (usePurchases.hasPremium, and the reconciled hasPremium) does not turn premium
\* before the flow's server re-verification has returned success: a step of such a
\* flow that turns it premium leaves the flow with its verification confirmed.
C2_PremiumOnlyAfterVerification ==
    [][\A f \in Flows :
          ( /\ flows'[f].kind \in PurchaseKinds
            /\ flows'[f] # flows[f]
            /\ \/ ~MobilePremium /\ MobilePremium'
               \/ ~DecisionPremium /\ DecisionPremium' )
          => flows'[f].verify = "ok"]_vars

\* C3: a purchase flow whose provider call succeeded and whose verification call
\* failed, with the household query (and the user profile) reporting no premium,
\* ends with a non-premium decision and an error outcome: purchaseProduct does not
\* report success.
C3_VerificationFailedIsAnError ==
    \A f \in Flows :
        ( /\ At(f, "purchaseProduct", "done")
          /\ flows[f].result.success
          /\ flows[f].verify = "failed"
          /\ ~HouseholdPremium
          /\ ~UserPremium )
        => /\ ~DecisionPremium
           /\ flows[f].returned = "false"
           /\ flows[f].toast \in DestructiveToasts

\* C4: handleUpgrade on a native platform is rejected at once: no POST to
\* /api/create-checkout-session is ever issued, the page's isLoading is never set,
\* and every such call has ended with the destructive "Not Available" toast.
C4_NativeCheckoutBlocked ==
    isNativePlatform =>
        /\ net.checkoutPosts = 0
        /\ ~pageIsLoading
        /\ \A f \in Flows :
             flows[f].kind = "handleUpgrade" =>
                /\ flows[f].pc = "done"
                /\ flows[f].toast = "Not Available"
                /\ flows[f].toast \in DestructiveToasts

\* C4 witness: on a native platform handleUpgrade(true) was called with a coupon
\* code typed in, and was rejected.
C4_Witness ==
    /\ isNativePlatform
    /\ Trim(couponCode) # ""
    /\ \E f \in Flows :
         /\ At(f, "handleUpgrade", "done")
         /\ flows[f].useCoupon
         /\ flows[f].toast = "Not Available"

C6_VerifyOnlyAfterProviderSuccess ==
    /\ \A f \in Flows :
         flows[f].verifyPosts > 0 =>
            /\ flows[f].kind \in PurchaseKinds
            /\ flows[f].result.success
            /\ ~flows[f].result.hasError
    /\ \A f \in Flows :
         flows[f].pc \in {"idle", "offerings", "purchasing", "restoring"} =>
            flows[f].verifyPosts = 0

\* C6 witness: a purchase flow has its verification request in flight, after the
\* provider reported success.
C6_Witness ==
    \E f \in Flows :
        /\ At(f, "purchaseProduct", "verifying")
        /\ flows[f].result.success
        /\ flows[f].verifyPosts = 1
        /\ net.purchaseCalls = 1

InFlight(f) == flows[f].pc \notin {"idle", "done"}

\* an awaited provider or verification call of the flow rejected
Rejected(f) == flows[f].verify = "failed" \/ flows[f].result.hasError

\* the flow ended in an error: a destructive toast, or false returned to the caller
ErrorOutcome(f) == flows[f].toast \in DestructiveToasts \/ flows[f].returned = "false"

\* C7: the flow is never left busy: when every awaited call settles, every
\* invocation ends and the hook's isLoading is false once nothing is in flight; and
\* a flow one of whose awaited provider or verification calls rejected ends in an
\* error outcome.
C7_NeverStuckAndRejectionIsError ==
    /\ \A f \in Flows : InFlight(f) ~> (flows[f].pc = "done")
    /\ []((\A f \in Flows : ~InFlight(f)) => ~isLoading)
    /\ [](\A f \in Flows : (flows[f].pc = "done" /\ Rejected(f)) => ErrorOutcome(f))

\* the instant a value of EndsAtValues denotes, when it denotes one
IsInstant(e) == ~NewDate(e).time.nan

\* C8: hasActiveSubscription returns true if and only if the plan is premium, the
\* status is active, and endsAt is absent or strictly later than the current time
\* (endsAt equal to now gives false).
C8_ActiveIffPremiumActiveUnexpired ==
    Returned("hasActiveSubscription") =>
        LET endsAt == call.args[3]
            absent == endsAt = Undefined \/ endsAt = Str("")
            later == IsInstant(endsAt) /\ NewDate(endsAt).time.ms > clock.time.ms
        IN  ret.b <=> ( /\ call.args[1] = Str("premium")
                        /\ call.args[2] = Str("active")
                        /\ (absent \/ later) )

\* C8 on the inputs that are absent or denote an instant: there the result is as C8
\* states; the other inputs (a string that is no date, an invalid Date) give true
\* for a premium active subscription.
C8_HoldsOnValidDates ==
    Returned("hasActiveSubscription") =>
        LET endsAt == call.args[3]
        IN  IF endsAt \in {Undefined, Str("")} \/ IsInstant(endsAt)
            THEN C8_ActiveIffPremiumActiveUnexpired
            ELSE ret.b <=> (call.args[1] = Str("premium") /\ call.args[2] = Str("active"))

\* C9: hasReachedLimit(count, limit) is false for every count when limit is -1, and
\* count >= limit otherwise: (5, 5) gives true and (4, 5) gives false.
C9_ReachedLimit ==
    Returned("hasReachedLimit") =>
        LET count == call.args[1].n
            limit == call.args[2].n
        IN  /\ limit = -1 => ret = Bool(FALSE)
            /\ limit # -1 => (ret.b <=> count >= limit)
            /\ (count = 5 /\ limit = 5) => ret = Bool(TRUE)
            /\ (count = 4 /\ limit = 5) => ret = Bool(FALSE)

\* C9 witness: hasReachedLimit(5, 5) returned true.
C9_Witness ==
    /\ Returned("hasReachedLimit")
    /\ call.args = <<Num(5), Num(5)>>
    /\ ret = Bool(TRUE)

\* C10: in every state of the application getPlanLimits is defined on basic and
\* premium and gives the fixed catalog: basic 0, 0, -1 with chat and tasks only;
\* premium -1, -1, -1 with all five features.
C10_CatalogFixed ==
    /\ DOMAIN PLAN_LIMITS = Plans
    /\ \A p \in Plans : DOMAIN getPlanLimits(p).fields = LimitKeys \cup FeatureKeys
    /\ LET basic == getPlanLimits("basic").fields
           premium == getPlanLimits("premium").fields
       IN  /\ basic.maxGroups.n = 0
           /\ basic.maxEventsPerMonth.n = 0
           /\ basic.maxMembersPerGroup.n = -1
           /\ ~basic.canUseAdvancedFeatures.b
           /\ basic.hasRealTimeChat.b
           /\ basic.hasTaskManagement.b
           /\ ~basic.hasEventPlanning.b
           /\ ~basic.hasMailingLabels.b
           /\ \A k \in LimitKeys : premium[k].n = -1
           /\ \A k \in FeatureKeys : premium[k].b

\* C10 witness: a purchase flow has run to its end, and the catalog still gives
\* basic no groups and premium unlimited groups.
C10_Witness ==
    /\ \E f \in Flows : At(f, "purchaseProduct", "done") /\ flows[f].verify = "ok"
    /\ getPlanLimits("basic").fields.maxGroups = Num(0)
    /\ getPlanLimits("premium").fields.maxGroups = Num(-1)

\* C11: for every boolean b and every boolean-valued feature key f,
\* canHouseholdAccessFeature(b, f) equals canUserAccessFeature(premium if b else
\* basic, f), and both equal the flag f of that plan's catalog record; the feature
\* hasMailingLabels is granted exactly when b is true.
C11_HouseholdFeatureIsPlanFlag ==
    /\ (Returned("canHouseholdAccessFeature") /\ call.args[2].s \in FeatureKeys) =>
          LET b == call.args[1].b
              f == call.args[2].s
              plan == IF b THEN "premium" ELSE "basic"
          IN  /\ ret = canUserAccessFeature(plan, f)
              /\ ret = PlanLimitsLiteral[plan][f]
              /\ f = "hasMailingLabels" => ret = Bool(b)
    /\ (Returned("canUserAccessFeature") /\ call.args[2].s \in FeatureKeys) =>
          ret = PlanLimitsLiteral[call.args[1].s][call.args[2].s]

\* C11 witness: canHouseholdAccessFeature(true, 'hasMailingLabels') returned true.
C11_Witness ==
    /\ Returned("canHouseholdAccessFeature")
    /\ call.args = <<Bool(TRUE), Str("hasMailingLabels")>>
    /\ ret = Bool(TRUE)

\* the inputs of a reconciler call as the rules of the decision read them
ViewPremium == Truthy(OptGet(call.args[1], "hasPremium"))

ViewProvider == OptGet(call.args[1], "subscriptionProvider")

NativeMobile == Truthy(JsAnd(call.args[3], call.args[2]))

ProfilePremium == StrictEqStr(OptGet(call.args[4], "subscriptionPlan"), "premium")

ProfileProvider == OptGet(call.args[4], "subscriptionProvider")

\* v when it is present, 'stripe' otherwise
OrStripe(v) == IF Truthy(v) THEN v ELSE Str("stripe")

\* the provider label the || chain gives, for every input: the view's provider when
\* the view carries one (whatever its hasPremium), otherwise 'revenuecat' on a native
\* platform with an active mobile entitlement and 'stripe' in every other case; the
\* user's stored provider is never read.
ProviderLabel_AsCoded ==
    Returned("useHouseholdSubscription") =>
        ret.fields.subscriptionProvider =
            IF Truthy(ViewProvider) THEN ViewProvider
            ELSE IF NativeMobile THEN Str("revenuecat") ELSE Str("stripe")

\* C12: for every household view that reports hasPremium=false, on a native platform
\* with an active mobile entitlement useHouseholdSubscription returns hasPremium=true
\* and subscriptionProvider='revenuecat'.
C12_NativeMobileIsRevenuecat ==
    ( /\ Returned("useHouseholdSubscription")
      /\ OptGet(call.args[1], "hasPremium") = Bool(FALSE)
      /\ call.args[3] = Bool(TRUE)
      /\ call.args[2] = Bool(TRUE) )
    => /\ ret.fields.hasPremium = Bool(TRUE)
       /\ ret.fields.subscriptionProvider = Str("revenuecat")

\* C13: on a non-native platform with household hasPremium=false and a user profile
\* whose subscriptionPlan is 'premium', the decision is premium and the provider is
\* the user's stored subscriptionProvider when one is present, 'stripe' otherwise.
C13_WebUserPremiumProvider ==
    ( /\ Returned("useHouseholdSubscription")
      /\ OptGet(call.args[1], "hasPremium") = Bool(FALSE)
      /\ call.args[3] = Bool(FALSE)
      /\ ProfilePremium )
    => /\ ret.fields.hasPremium = Bool(TRUE)
       /\ ret.fields.subscriptionProvider = OrStripe(ProfileProvider)

\* C14: when the household view reports hasPremium=true the decision is premium and
\* the provider is the view's subscriptionProvider if present; if it is absent the
\* label is the user profile's subscriptionProvider, defaulting to 'stripe', on every
\* platform and in every mobile-entitlement state.
C14_HouseholdPremiumProvider ==
    (Returned("useHouseholdSubscription") /\ ViewPremium)
    => /\ ret.fields.hasPremium = Bool(TRUE)
       /\ ret.fields.subscriptionProvider =
            IF Truthy(ViewProvider) THEN ViewProvider ELSE OrStripe(ProfileProvider)

\* C15: the provider label used for display is 'revenuecat' whenever the platform is
\* native and the mobile entitlement is active, whatever the household view says;
\* otherwise it is the provider of the source that supplied the premium decision
\* (the household view, else the user profile), defaulting to 'stripe'; the display
\* name is "Mobile App Store" exactly for a 'revenuecat' label.
C15_DisplayProviderLabel ==
    Returned("useHouseholdSubscription") =>
        LET expected ==
                IF NativeMobile THEN Str("revenuecat")
                ELSE IF ViewPremium THEN OrStripe(ViewProvider)
                ELSE IF ProfilePremium THEN OrStripe(ProfileProvider)
                ELSE Str("stripe")
        IN  /\ ret.fields.subscriptionProvider = expected
            /\ getSubscriptionDisplayInfo(ret.fields.subscriptionProvider).providerName =
                 IF expected = Str("revenuecat") THEN "Mobile App Store" ELSE "Web Payment"

\* C16: the reconciler never fails: with any of the household view, the mobile
\* subscription and the user record missing it returns a decision, hasPremium is a
\* boolean, a missing source counts as no premium, and with every source missing or
\* non-premium the decision is hasPremium=false with provider 'stripe'.
C16_ReconcilerDegrades ==
    Returned("useHouseholdSubscription") =>
        /\ ret.t = "object"
        /\ ret.fields.hasPremium \in {Bool(TRUE), Bool(FALSE)}
        /\ ret.fields.subscriptionProvider \in {Str(p) : p \in Providers}
        /\ call.args[1] = Undefined =>
             ret.fields.hasPremium = Bool(NativeMobile \/ ProfilePremium)
        /\ call.args[4] = Undefined =>
             ret.fields.hasPremium = Bool(ViewPremium \/ NativeMobile)
        /\ (~ViewPremium /\ ~NativeMobile /\ ~ProfilePremium) =>
             /\ ret.fields.hasPremium = Bool(FALSE)
             /\ ret.fields.subscriptionProvider = Str("stripe")

\* C16 without its last clause on the views that carry a provider: the decision is
\* always returned, hasPremium is always a boolean, and with no source premium and
\* no provider on the view the provider is 'stripe'.
C16_HoldsWithoutViewProvider ==
    Returned("useHouseholdSubscription") =>
        IF Truthy(ViewProvider)
        THEN ret.fields.hasPremium = Bool(ViewPremium \/ NativeMobile \/ ProfilePremium)
        ELSE C16_ReconcilerDegrades

\* C17: when the provider reports a user cancellation of a purchase (code
\* PURCHASE_CANCELLED), purchaseProduct ends with no toast, false returned, and no
\* verification request; the step that ends it leaves the active subscription
\* unchanged, isLoading false and isInitialized true.
C17_CancellationIsSilent ==
    /\ [](\A f \in Flows :
            (flows[f].kind = "purchaseProduct" /\ flows[f].result.code = "PURCHASE_CANCELLED")
            => /\ flows[f].pc = "done"
               /\ flows[f].toast = "none"
               /\ flows[f].returned = "false"
               /\ flows[f].verifyPosts = 0
               /\ flows[f].verify = "none")
    /\ [][\A f \in Flows :
            ( /\ flows'[f].kind = "purchaseProduct"
              /\ flows'[f].result.code = "PURCHASE_CANCELLED"
              /\ flows[f].result.code # "PURCHASE_CANCELLED" )
            => /\ activeSubscription' = activeSubscription
               /\ net'.verifyPosts = net.verifyPosts
               /\ ~isLoading'
               /\ isInitialized /\ isInitialized']_vars

\* C17 witness: a purchase was cancelled at the provider; the flow ended silently,
\* no verification request was sent, and the hook is initialized and not loading.
C17_Witness ==
    \E f \in Flows :
        /\ At(f, "purchaseProduct", "done")
        /\ flows[f].sdkError = Thrown([message |-> "The purchase was cancelled",
                                       code |-> "PURCHASE_CANCELLED"])
        /\ flows[f].toast = "none"
        /\ flows[f].returned = "false"
        /\ net.verifyPosts = 0
        /\ activeSubscription = Null
        /\ ~isLoading
        /\ isInitialized

\* C18: when the provider's purchase or restore call fails with an error other than a
\* cancellation, the result handed back carries the provider's message and the
\* provider's code, the flow ends (destructive toast showing that message, false
\* returned, no verification request), and the step that ends it leaves isLoading
\* false and isInitialized true.
C18_ProviderErrorPreserved ==
    /\ [](\A f \in Flows :
            ( /\ flows[f].kind \in PurchaseKinds
              /\ flows[f].sdkError.thrown
              /\ flows[f].sdkError.code # "PURCHASE_CANCELLED" )
            => /\ flows[f].pc = "done"
               /\ flows[f].result.hasError /\ ~flows[f].result.success
               /\ flows[f].sdkError.message # "" =>
                    flows[f].result.message = flows[f].sdkError.message
               /\ flows[f].sdkError.code # "" =>
                    flows[f].result.code = flows[f].sdkError.code
               /\ flows[f].toast \in {"Purchase Failed", "Restore Failed"}
               /\ flows[f].toast \in DestructiveToasts
               /\ flows[f].toastText = flows[f].result.message
               /\ flows[f].returned = "false"
               /\ flows[f].verifyPosts = 0)
    /\ [][\A f \in Flows :
            ( /\ flows'[f].kind \in PurchaseKinds
              /\ flows'[f].sdkError.thrown /\ ~flows[f].sdkError.thrown
              /\ flows'[f].sdkError.code # "PURCHASE_CANCELLED" )
            => ~isLoading' /\ isInitialized']_vars

\* C18 witness: a restore was rejected by the provider with a network error; the
\* result carries its message and its code, and the hook is ready again.
C18_Witness ==
    \E f \in Flows :
        /\ At(f, "restorePurchases", "done")
        /\ flows[f].sdkError = Thrown([message |-> "Network error", code |-> "NETWORK_ERROR"])
        /\ flows[f].result.message = "Network error"
        /\ flows[f].result.code = "NETWORK_ERROR"
        /\ flows[f].toast = "Restore Failed"
        /\ ~isLoading
        /\ isInitialized

\* the restore flow f whose provider call succeeded and whose entitlement lookup
\* found no active premium entitlement
RestoredNothing(f) ==
    /\ flows[f].kind = "restorePurchases"
    /\ flows[f].result.success
    /\ flows[f].pc \in {"verifying", "done"}
    /\ ~Truthy(OptGet(flows[f].localSub, "isActive"))

\* C19: when restorePurchases succeeds at the provider and no active premium
\* entitlement is found afterwards, the flow ends with the non-destructive
\* "No Purchases Found" toast and returns true; the step that stores the lookup's
\* answer leaves the mobile premium flag false, and the step that ends the flow
\* leaves isLoading false and isInitialized true.
C19_NothingToRestore ==
    /\ [](\A f \in Flows :
            (RestoredNothing(f) /\ flows[f].pc = "done")
            => /\ flows[f].toast = "No Purchases Found"
               /\ flows[f].toast \in InfoToasts
               /\ flows[f].toast \notin DestructiveToasts
               /\ flows[f].toastText = "No active subscriptions found to restore."
               /\ flows[f].returned = "true")
    /\ [][\A f \in Flows :
            (At(f, "restorePurchases", "customerInfo") /\ RestoredNothing(f)')
            => ~MobilePremium']_vars
    /\ [][\A f \in Flows :
            (At(f, "restorePurchases", "verifying") /\ RestoredNothing(f)' /\ flows'[f].pc = "done")
            => ~isLoading' /\ isInitialized']_vars

\* C19 witness: a restore succeeded at the provider, the lookup found no entitlement,
\* and the flow ended with the informational toast and the premium flag false.
C19_Witness ==
    \E f \in Flows :
        /\ RestoredNothing(f)
        /\ flows[f].pc = "done"
        /\ flows[f].localSub = Null
        /\ flows[f].toast = "No Purchases Found"
        /\ ~MobilePremium
        /\ ~isLoading
        /\ isInitialized

\* an initialize() flow ran to the end of its try block
InitializeCompleted(flow) ==
    flow.kind = "initialize" /\ flow.pc = "done" /\ flow.toast = "none"

\* C20: on a native platform isInitialized is true only if the provider SDK was
\* initialized (the service's configure succeeded) and an initialize() ran to its
\* end, and an initialize() that ran to its end there has set it; an initialize()
\* that fails shows the destructive "Initialization Error" toast and the step that
\* ends it leaves isInitialized as it was (false, unless another initialize() had
\* succeeded), isLoading false and the service uninitialized if it was, so that a
\* later initialize() configures the SDK again.
C20_InitializeFailureIsRetryable ==
    /\ [](isInitialized =>
            /\ isNativePlatform
            /\ svcInitialized
            /\ \E f \in Flows : InitializeCompleted(flows[f]))
    /\ [](\A f \in Flows :
            (isNativePlatform /\ InitializeCompleted(flows[f])) => isInitialized)
    /\ [](\A f \in Flows :
            InitializeErrored(flows[f]) =>
                /\ flows[f].pc = "done"
                /\ flows[f].toast \in DestructiveToasts
                /\ isInitialized => \E g \in Flows \ {f} : InitializeCompleted(flows[g]))
    /\ [][\A f \in Flows :
            (InitializeErrored(flows'[f]) /\ ~InitializeErrored(flows[f]))
            => /\ isInitialized' = isInitialized
               /\ svcInitialized' = svcInitialized
               /\ ~isLoading']_vars

\* C20 witness: an initialize() failed, and an initialize() called after that
\* failure succeeded: the hook is initialized and not loading.
C20_Witness ==
    \E f, g \in Flows :
        /\ isNativePlatform
        /\ InitializeErrored(flows[f])
        /\ InitializeCompleted(flows[g])
        /\ flows[g].retry
        /\ isInitialized
        /\ svcInitialized
        /\ ~isLoading

\* C21: logout brings the purchase flow back to idle and clears the cached provider
\* session state: the step of a logout (useAuth's logout, or the service's logout)
\* leaves the cached mobile subscription not active, the hook and the service not
\* initialized and no flow in flight, so that a purchase attempted before a new
\* initialize() is rejected by the guard.
C21_LogoutClearsProviderState ==
    [][(net'.logouts > net.logouts \/ net'.logOutCalls > net.logOutCalls)
       => /\ ~MobilePremium'
          /\ ~isInitialized'
          /\ ~svcInitialized'
          /\ \A f \in Flows : flows'[f].pc \in {"idle", "done"}]_vars

\* the call of purchaseProduct or restorePurchases in slot f is made in this step
PurchaseCalled(f) == flows[f].kind = "none" /\ flows'[f].kind \in PurchaseKinds

\* C22: purchaseProduct and restorePurchases called off a native platform or before
\* initialization completed are rejected with a surfaced error: the call ends at
\* once with a destructive toast and false, the provider's purchase or restore call
\* is not invoked, no verification request is issued, and products and
\* activeSubscription are unchanged.
C22_GuardRejects ==
    [][\A f \in Flows :
          (PurchaseCalled(f) /\ (~isNativePlatform \/ ~isInitialized))
          => /\ flows'[f].pc = "done"
             /\ flows'[f].toast \in {"Purchase Error", "Restore Error"}
             /\ flows'[f].toast \in DestructiveToasts
             /\ flows'[f].toastText = "Purchases not available on this platform"
             /\ flows'[f].returned = "false"
             /\ flows'[f].verifyPosts = 0
             /\ net' = net
             /\ products' = products
             /\ activeSubscription' = activeSubscription
             /\ ~isLoading']_vars

\* C22 witness: on a native platform the service is configured but the hook's
\* initialize() has not completed, and a purchaseProduct call was rejected.
C22_Witness ==
    /\ isNativePlatform
    /\ svcInitialized
    /\ ~isInitialized
    /\ net.purchaseCalls = 0
    /\ \E f \in Flows :
         /\ At(f, "purchaseProduct", "done")
         /\ flows[f].toast = "Purchase Error"
         /\ flows[f].returned = "false"

SvcReturned(fn) == call.fn = "PurchasesService." \o fn

\* C23: on a non-native platform the service is an unavailable sentinel: after any
\* sequence of calls of its methods no SDK operation has been invoked, the service
\* is not initialized, getOfferings returned [], getActiveSubscription returned
\* null, and purchaseProduct and restorePurchases returned success=false.
C23_WebSentinel ==
    ~isNativePlatform =>
        /\ ~svcInitialized
        /\ net = NoNet
        /\ call.fn # "none" => call.sdk = {}
        /\ SvcReturned("getOfferings") => ret = SvcReturn({})
        /\ SvcReturned("getActiveSubscription") => ret = SvcReturn(Null)
        /\ (SvcReturned("purchaseProduct") \/ SvcReturned("restorePurchases")) =>
             /\ ret.t = "return"
             /\ ~ret.value.success
             /\ ret.value.hasError

\* C23 witness: on the web purchaseProduct was called on the service and returned
\* success=false with the 'not initialized or not on native platform' error.
C23_Witness ==
    /\ ~isNativePlatform
    /\ SvcReturned("purchaseProduct")
    /\ ret = SvcReturn(ErrorResult(JsError("RevenueCat not initialized or not on native platform"),
                                   "Purchase failed"))
    /\ call.sdk = {}

\* the provider's purchase call of flow f was issued and has settled
PurchaseSettled(f) ==
    /\ flows[f].kind = "purchaseProduct"
    /\ flows[f].result.success \/ flows[f].sdkError.thrown

\* C24: once the provider's purchase call has been issued the flow is never
\* silently dropped: a purchaseProduct flow that ended after it ended with the
\* verification request completed or with a provider error shown to the user, also
\* when the provider reported success without customer info; a cancellation by the
\* user, which is silent by design, is the one exception.
C24_NeverSilentlyDropped ==
    \A f \in Flows :
        ( /\ PurchaseSettled(f)
          /\ flows[f].pc = "done"
          /\ flows[f].sdkError.code # "PURCHASE_CANCELLED" )
        => \/ flows[f].verify \in {"ok", "failed"}
           \/ flows[f].toast \in DestructiveToasts

\* the flows whose verification request returned success
VerifiedFlows == {f \in Flows : flows[f].verify = "ok"}

\* C25: after the verification request of a purchase or restore flow returned
\* success the client schedules the 'subscription-status-changed' notification, and
\* the notification is emitted only after a verification request returned success,
\* never for one that failed: the notifications scheduled or emitted are exactly as
\* many as the verification requests that succeeded.
C25_StatusChangedAfterVerify ==
    /\ net.timers + net.statusEvents = Cardinality(VerifiedFlows)
    /\ net.statusEvents > 0 => VerifiedFlows # {}
    /\ \A f \in VerifiedFlows : flows[f].kind \in PurchaseKinds /\ flows[f].pc = "done"

\* C25 witness: a purchase flow's verification succeeded and the notification was
\* emitted.
C25_Witness ==
    /\ net.statusEvents = 1
    /\ net.timers = 0
    /\ \E f \in Flows : At(f, "purchaseProduct", "done") /\ flows[f].verify = "ok"

\* C26: hasReachedLimit treats negative counts as not reached: for every negative
\* currentCount and every integer limit it returns false.
C26_NegativeCountNotReached ==
    (Returned("hasReachedLimit") /\ call.args[1].n < 0) => ret = Bool(FALSE)

\* C26 on the limits the catalog uses (-1 and the non-negative ones): there a
\* negative count is never reached; for a limit below -1 the result is
\* currentCount >= limit.
C26_HoldsForCatalogLimits ==
    (Returned("hasReachedLimit") /\ call.args[1].n < 0) =>
        IF call.args[2].n >= -1 THEN ret = Bool(FALSE)
        ELSE ret = Bool(call.args[1].n >= call.args[2].n)

\* the user records that differ from usr at most in subscriptionProvider
SameButProvider(usr) ==
    {u \in AllUsers :
        /\ u.t = usr.t
        /\ u.t = "object" =>
             /\ DOMAIN u.fields \ {"subscriptionProvider"} = DOMAIN usr.fields \ {"subscriptionProvider"}
             /\ \A k \in DOMAIN u.fields \ {"subscriptionProvider"} : u.fields[k] = usr.fields[k]}

\* C27: the provider label useHouseholdSubscription computes does not depend on the
\* user profile's subscriptionProvider: an evaluation on the same household view,
\* mobile entitlement and platform, with a user record that differs only in
\* subscriptionProvider (present or not, either value), yields the same provider.
C27_ProviderIgnoresUserProvider ==
    Returned("useHouseholdSubscription") =>
        \A u \in SameButProvider(call.args[4]) :
            useHouseholdSubscription(call.args[1], call.args[2], call.args[3], u).subscriptionProvider
                = ret.fields.subscriptionProvider

\* C27 witness: a web evaluation with no provider on the household view and a
\* premium user whose stored provider is 'revenuecat' returned 'stripe', as the
\* evaluation for the same user with provider 'stripe' does.
C27_Witness ==
    /\ Returned("useHouseholdSubscription")
    /\ call.args = <<Obj([hasPremium |-> Bool(FALSE)]), Bool(FALSE), Bool(FALSE),
                     Obj([subscriptionPlan |-> Str("premium"),
                          subscriptionProvider |-> Str("revenuecat")])>>
    /\ Obj([subscriptionPlan |-> Str("premium"), subscriptionProvider |-> Str("stripe")])
         \in SameButProvider(call.args[4])
    /\ Obj([subscriptionPlan |-> Str("premium")]) \in SameButProvider(call.args[4])
    /\ ret.fields.subscriptionProvider = Str("stripe")

\* C28: when the requested productId matches no package of the current offerings
\* (empty offerings included) the service returns success=false with the 'not found
\* in offerings' error without invoking the provider's purchase call; the hook ends
\* the flow with that error shown, issues no verification request, and the step
\* leaves activeSubscription and the count of provider purchase calls unchanged.
C28_ProductNotFound ==
    /\ [](\A f \in Flows :
            (At(f, "purchaseProduct", "purchasing") \/ PurchaseSettled(f))
            => flows[f].productId \in flows[f].offered)
    /\ [][\A f \in Flows :
            ( /\ At(f, "purchaseProduct", "offerings")
              /\ flows'[f] # flows[f]
              /\ flows'[f].productId \notin flows'[f].offered )
            => /\ flows'[f].pc = "done"
               /\ ~flows'[f].result.success
               /\ flows'[f].result.hasError
               /\ flows'[f].result.message =
                    "Product " \o flows[f].productId \o " not found in offerings"
               /\ flows'[f].toast = "Purchase Failed"
               /\ flows'[f].toastText = flows'[f].result.message
               /\ flows'[f].returned = "false"
               /\ flows'[f].verifyPosts = 0
               /\ net' = net
               /\ activeSubscription' = activeSubscription]_vars

\* C28 witness: the annual product was asked for while the offerings held only the
\* monthly one; the flow ended with the error and no purchase call was made.
C28_Witness ==
    \E f \in Flows :
        /\ At(f, "purchaseProduct", "done")
        /\ flows[f].productId = "my_branches_premium_annual"
        /\ flows[f].offered = {"my_branches_premium_monthly"}
        /\ flows[f].result.hasError
        /\ flows[f].toast = "Purchase Failed"
        /\ net.purchaseCalls = 0
        /\ net.verifyPosts = 0

\* a hook operation of slot f is past its guard and has not finished
HookInFlight(f) == flows[f].kind \in HookKinds /\ InFlight(f)

\* C29: for any interleaving of overlapping initialize, fetchProducts,
\* purchaseProduct and restorePurchases calls on one usePurchases instance,
\* isLoading is true whenever at least one of them is still in flight.
C29_LoadingWhileInFlight ==
    (\E f \in Flows : HookInFlight(f)) => isLoading

\* C29 for an operation on its own: while an operation is in flight and no other
\* call has been made, isLoading is true.
C29_HoldsForOneOperation ==
    (\E f \in Flows : HookInFlight(f) /\ \A g \in Flows \ {f} : flows[g].kind = "none")
        => isLoading

\* C30: the service singleton configures the provider SDK at most once whatever the
\* interleaving of the initialize() calls made at mount, and once the service's
\* isInitialized is true it never becomes false again.
C30_ConfigureAtMostOnce ==
    /\ [](net.configureCalls <= 1)
    /\ [][svcInitialized => svcInitialized']_vars

\* C30, the part that holds: the service's isInitialized is never reset.
C30_InitializedIsStable == [][svcInitialized => svcInitialized']_vars

====
